---- MODULE Spec2Model ----
(***************************************************************************)
(* Model of collect_data.py: the BLS collector (get_bls_data), the         *)
(* transformer (process_data) and the store (initial_data_collection,      *)
(* update_data_and_save) that keeps data/bls_data.csv.                     *)
(*                                                                         *)
(* Encodings.  A period code is a sequence of one-character strings        *)
(* (<<"M","0","1">> is 'M01').  A float is its value in tenths (37 is      *)
(* 3.7); Null is None/NaN.  The key of processed_data, the string          *)
(* f"{year}-{month:02d}-01", is the pair <<year, month>>.  A Timestamp is  *)
(* the integer year*10000 + month*100 + day, which orders as dates do.     *)
(* A date in the CSV file is the triple <<year, month, day>>.              *)
(***************************************************************************)
EXTENDS Integers, Sequences, FiniteSets, TLC

VARIABLES
    file,            \* data/bls_data.csv on disk
    pc,              \* "idle": no process; "done": a run has ended, not yet exited
    run,             \* what the last run did (observation of the run, no program state)
    series_results,  \* argument of a stand-alone call of process_data
    df               \* what that call produced

vars == <<file, pc, run, series_results, df>>

\* None / NaN, apart from every float (tenths, never negative here)
Null == -1

\* ---------------------------------------------------------------- bounds
\* the observations one response carries, over all its series
MaxObs == 2

\* ------------------------------------------------------------- constants
FULL_HISTORY_YEARS == 5
UPDATE_WINDOW_YEARS == 3

SERIES_MAP ==
    [s \in {"LNS14000000", "CES0000000001", "CES0500000003", "PRS85006092",
            "CUUR0000SA0L1E", "EIUIR", "EIUIQ"} |->
        CASE s = "LNS14000000" -> "Unemployment_Rate_SA"
          [] s = "CES0000000001" -> "Total_Nonfarm_Employment_SA"
          [] s = "CES0500000003" -> "Avg_Weekly_Hours_Private_SA"
          [] s = "PRS85006092" -> "Output_Per_Hour_NF"
          [] s = "CUUR0000SA0L1E" -> "CPI_U_Ex_Food_Energy_U"
          [] s = "EIUIR" -> "Imports_All_Commodities_U"
          [] s = "EIUIQ" -> "Exports_All_Commodities_U"]

\* SERIES_MAP.get(series_id, series_id)
ColumnName(series_id) ==
    IF series_id \in DOMAIN SERIES_MAP THEN SERIES_MAP[series_id] ELSE series_id

\* ------------------------------------------------------ text conversions
Digits == {"0", "1", "2", "3", "4", "5", "6", "7", "8", "9"}

DigitVal(c) ==
    CASE c = "0" -> 0 [] c = "1" -> 1 [] c = "2" -> 2 [] c = "3" -> 3
      [] c = "4" -> 4 [] c = "5" -> 5 [] c = "6" -> 6 [] c = "7" -> 7
      [] c = "8" -> 8 [] c = "9" -> 9

\* int(s) succeeds: s is a non-empty run of decimal digits (the signs,
\* blanks and underscores int() also takes are not among the inputs)
IntParses(s) == Len(s) > 0 /\ \A i \in 1..Len(s) : s[i] \in Digits

RECURSIVE IntOf(_)
IntOf(s) ==
    IF s = <<>> THEN 0 ELSE 10 * IntOf(SubSeq(s, 1, Len(s) - 1)) + DigitVal(s[Len(s)])

\* float(value): the texts the API sends, "-" for a missing figure
FloatParses(value) == value \in {"3.7", "4.1"}

FloatOf(value) == CASE value = "3.7" -> 37 [] value = "4.1" -> 41

\* to_csv's text of a cell and read_csv's parse of it
CellText(v) == CASE v = Null -> "" [] v = 37 -> "3.7" [] v = 41 -> "4.1"

CellValue(t) == CASE t = "" -> Null [] t = "3.7" -> 37 [] t = "4.1" -> 41

Timestamp(y, m, d) == y * 10000 + m * 100 + d

\* to_csv's text of a Timestamp, %Y-%m-%d, and read_csv's parse_dates of it
DateText(ts) == <<ts \div 10000, (ts \div 100) % 100, ts % 100>>

DateValue(t) == Timestamp(t[1], t[2], t[3])

\* ---------------------------------------------------------- process_data
quarter_map(period) ==
    CASE period = <<"Q", "0", "1">> -> 3
      [] period = <<"Q", "0", "2">> -> 6
      [] period = <<"Q", "0", "3">> -> 9
      [] period = <<"Q", "0", "4">> -> 12
      [] OTHER -> 0

StartsWith(period, c) == Len(period) > 0 /\ period[1] = c

\* Lines 75-84 for one item: "raise" is int()'s ValueError, "none" is
\* date_str left None, "date" is date_str set.
DateStr(item) ==
    IF StartsWith(item.period, "M")
    THEN IF IntParses(Tail(item.period))
         THEN [kind |-> "date", key |-> <<item.year, IntOf(Tail(item.period))>>]
         ELSE [kind |-> "raise", key |-> <<>>]
    ELSE IF StartsWith(item.period, "Q") /\ quarter_map(item.period) # 0
         THEN [kind |-> "date", key |-> <<item.year, quarter_map(item.period)>>]
         ELSE [kind |-> "none", key |-> <<>>]

\* Lines 90-93
CellOf(value) == IF FloatParses(value) THEN FloatOf(value) ELSE Null

\* position of key in the insertion-ordered dict, 0 when absent
KeyIndex(pd, key) ==
    IF \E i \in 1..Len(pd) : pd[i].key = key
    THEN CHOOSE i \in 1..Len(pd) : pd[i].key = key
    ELSE 0

\* Lines 86-93: processed_data[date_str][column_name] = float(value) or None
SetCell(pd, key, column_name, v) ==
    LET i == KeyIndex(pd, key)
        old == IF i = 0 THEN <<>> ELSE pd[i].row
        new == [c \in DOMAIN old \cup {column_name} |->
                    IF c = column_name THEN v ELSE old[c]]
    IN IF i = 0
       THEN Append(pd, [key |-> key, row |-> new])
       ELSE [pd EXCEPT ![i] = [key |-> key, row |-> new]]

\* Lines 70-93: the items of one series, from item i on
RECURSIVE ProcessItems(_, _, _, _)
ProcessItems(acc, column_name, data, i) ==
    IF acc.raised \/ i > Len(data) THEN acc
    ELSE LET ds == DateStr(data[i])
         IN ProcessItems(
                CASE ds.kind = "raise" -> [acc EXCEPT !.raised = TRUE]
                  [] ds.kind = "none" -> acc
                  [] ds.kind = "date" ->
                        [acc EXCEPT !.pd = SetCell(acc.pd, ds.key, column_name,
                                                   CellOf(data[i].value))],
                column_name, data, i + 1)

\* Lines 64-93: the loop over the series
RECURSIVE ProcessSeries(_, _, _)
ProcessSeries(acc, results, i) ==
    IF acc.raised \/ i > Len(results) THEN acc
    ELSE ProcessSeries(
             ProcessItems(acc, ColumnName(results[i].seriesID), results[i].data, 1),
             results, i + 1)

NoFrame == [cols |-> {}, rows |-> <<>>]

\* Line 95: DataFrame.from_dict(processed_data, orient='index'); a key a row
\* lacks is NaN, and None in a float column is NaN as well
FromDict(pd) ==
    LET cols == UNION {DOMAIN pd[i].row : i \in 1..Len(pd)}
    IN [cols |-> cols,
        rows |-> [i \in 1..Len(pd) |->
                    [Date |-> pd[i].key,
                     cells |-> [c \in cols |->
                                  IF c \in DOMAIN pd[i].row THEN pd[i].row[c]
                                  ELSE Null]]]]

\* Line 98: pd.to_datetime of "Y-MM-01" raises ValueError (month must be in
\* 1..12) when any element's month is out of range
ToDatetimeParses(rows) == \A i \in 1..Len(rows) : rows[i].Date[2] \in 1..12

ToDatetime(rows) ==
    [i \in 1..Len(rows) |->
        [rows[i] EXCEPT !.Date = Timestamp(rows[i].Date[1], rows[i].Date[2], 1)]]

\* the sorted sequence with row r put after the last row whose Date is <= r's
RECURSIVE InsertSorted(_, _)
InsertSorted(sorted, r) ==
    IF sorted = <<>> THEN <<r>>
    ELSE IF sorted[Len(sorted)].Date <= r.Date THEN Append(sorted, r)
    ELSE Append(InsertSorted(SubSeq(sorted, 1, Len(sorted) - 1), r),
                sorted[Len(sorted)])

\* sort_values left out
SortValuesSkipped(rows) == rows

\* Lines 100, 174: df.sort_values(by='Date').reset_index(drop=True)
RECURSIVE SortValues(_)
SortValues(rows) ==
    IF rows = <<>> THEN <<>>
    ELSE InsertSorted(SortValues(SubSeq(rows, 1, Len(rows) - 1)), rows[Len(rows)])

\* Lines 63-101.  raised: a ValueError left process_data (line 77 or 98).
process_data(results) ==
    LET acc == ProcessSeries([raised |-> FALSE, pd |-> <<>>], results, 1)
        frame == FromDict(acc.pd)
    IN IF acc.raised \/ ~ToDatetimeParses(frame.rows)
       THEN [raised |-> TRUE, df |-> NoFrame]
       ELSE [raised |-> FALSE,
             df |-> [cols |-> frame.cols, rows |-> SortValues(ToDatetime(frame.rows))]]

\* ------------------------------------------------------------- the file
\* DATA_FILE_PATH on disk: key is the name of the header's first column
\* ("" in a file of zero bytes), cols the other column names.
Absent == [exists |-> FALSE, key |-> "", cols |-> {}, rows |-> <<>>]

ZeroLength == [exists |-> TRUE, key |-> "", cols |-> {}, rows |-> <<>>]

\* os.path.getsize(DATA_FILE_PATH) == 0
GetSizeIsZero(f) == f.key = ""

\* Lines 117, 182: df.to_csv(DATA_FILE_PATH, index=False) run to its end
ToCsv(frame) ==
    [exists |-> TRUE, key |-> "Date", cols |-> frame.cols,
     rows |-> [i \in 1..Len(frame.rows) |->
                 [date |-> DateText(frame.rows[i].Date),
                  cells |-> [c \in frame.cols |-> CellText(frame.rows[i].cells[c])]]]]

\* to_csv stopped by a crash after `cut` units of the text were on disk:
\* 0 is the file truncated by open(), 1 is a header line cut inside the
\* word Date, 2 + k is the whole header line and the first k rows.
ToCsvCut(frame, cut) ==
    CASE cut = 0 -> ZeroLength
      [] cut = 1 -> [exists |-> TRUE, key |-> "Dat", cols |-> {}, rows |-> <<>>]
      [] OTHER -> [ToCsv(frame) EXCEPT !.rows = SubSeq(ToCsv(frame).rows, 1, cut - 2)]

NoCut == -1

WriteCsv(frame, cut) == IF cut = NoCut THEN ToCsv(frame) ELSE ToCsvCut(frame, cut)

\* the missing Date column not noticed
MissingDateColumnIgnored(f) == FALSE

\* Lines 142-146: read_csv(parse_dates=['Date']) raises ValueError "Missing
\* column provided to 'parse_dates'" when the header has no Date column
MissingDateColumn(f) == f.key # "Date"

\* Line 142: pd.read_csv(DATA_FILE_PATH, parse_dates=['Date'])
ReadCsv(f) ==
    [cols |-> f.cols,
     rows |-> [i \in 1..Len(f.rows) |->
                 [Date |-> DateValue(f.rows[i].date),
                  cells |-> [c \in f.cols |-> CellValue(f.rows[i].cells[c])]]]]

\* a frame's rows over a wider column set, NaN where it has no such column
Reindex(frame, cols) ==
    [i \in 1..Len(frame.rows) |->
        [Date |-> frame.rows[i].Date,
         cells |-> [c \in cols |->
                      IF c \in frame.cols THEN frame.rows[i].cells[c] ELSE Null]]]

\* Line 173: pd.concat([df_existing, df_new])
Concat(a, b) ==
    [cols |-> a.cols \cup b.cols,
     rows |-> Reindex(a, a.cols \cup b.cols) \o Reindex(b, a.cols \cup b.cols)]

SelectSeq2(rows, keep) ==
    LET F[i \in 0..Len(rows)] ==
            IF i = 0 THEN <<>>
            ELSE IF i \in keep THEN Append(F[i - 1], rows[i]) ELSE F[i - 1]
    IN F[Len(rows)]

\* keep='first' in place of keep='last'
DropDuplicatesKeepFirst(rows) ==
    SelectSeq2(rows, {i \in 1..Len(rows) :
                        \A j \in 1..(i - 1) : rows[j].Date # rows[i].Date})

\* drop_duplicates left out
DropDuplicatesNone(rows) == rows

\* keep=False: every row of a repeated date goes
DropDuplicatesAll(rows) ==
    SelectSeq2(rows, {i \in 1..Len(rows) :
                        \A j \in 1..Len(rows) : j # i => rows[j].Date # rows[i].Date})

\* Line 173: .drop_duplicates(subset=['Date'], keep='last')
DropDuplicatesKeepLast(rows) ==
    SelectSeq2(rows, {i \in 1..Len(rows) :
                        \A j \in (i + 1)..Len(rows) : rows[j].Date # rows[i].Date})

\* the new rows filled from the old ones cell by cell (combine_first)
CombineCellwise(df_existing, df_new) ==
    LET both == Concat(df_existing, df_new)
        n == Len(df_existing.rows)
        filled == [i \in 1..Len(both.rows) |->
                     IF i <= n THEN both.rows[i]
                     ELSE [both.rows[i] EXCEPT !.cells =
                             [c \in both.cols |->
                                IF both.rows[i].cells[c] # Null
                                THEN both.rows[i].cells[c]
                                ELSE IF \E k \in 1..n : both.rows[k].Date = both.rows[i].Date
                                THEN both.rows[CHOOSE k \in 1..n :
                                        both.rows[k].Date = both.rows[i].Date].cells[c]
                                ELSE Null]]]
    IN [cols |-> both.cols, rows |-> SortValues(DropDuplicatesKeepLast(filled))]

\* Lines 173-174
Combine(df_existing, df_new) ==
    LET both == Concat(df_existing, df_new)
    IN [cols |-> both.cols, rows |-> SortValues(DropDuplicatesKeepLast(both.rows))]

\* ------------------------------------------------------------ the fetch
\* get_bls_data returns None (lines 57, 60) or the list of series (line 54)
None == [ok |-> FALSE, series |-> <<>>]

\* the result used without the check
TruthyNotChecked(series_data) == TRUE

\* `if series_data:` (line 111), `if not series_data:` (line 167)
Truthy(series_data) == series_data.ok /\ series_data.series # <<>>

\* Lines 30-31, 109: the window of the full-history fetch
FullWindow(current_year) == <<current_year - FULL_HISTORY_YEARS, current_year>>

\* the revisions fetch asking for the full-history window
UpdateWindowFull(current_year) == <<current_year - FULL_HISTORY_YEARS, current_year>>

\* Lines 155-157, 165: the window of the revisions fetch
UpdateWindow(current_year) == <<current_year - UPDATE_WINDOW_YEARS, current_year>>

\* ------------------------------------------------------------ the store
\* What a run did: the file it found and left, the windows it asked
\* get_bls_data for, whether it called os.remove, the frames it held and
\* how it ended: "done" (returned after its write), "failed" (returned
\* after a fetch that gave nothing), "raised" (an uncaught ValueError),
\* "crashed" (stopped inside to_csv).
Ran(f, path, fetches, outcome, df_existing, hasNew, df_new) ==
    [file |-> f, path |-> path, deleted |-> FALSE, fetches |-> fetches,
     outcome |-> outcome, df_existing |-> df_existing, hasNew |-> hasNew,
     df_new |-> df_new]

\* Lines 104-122
initial_data_collection(f, current_year, series_data, cut) ==
    LET fetches == <<FullWindow(current_year)>>
        df_final == process_data(series_data.series)
    IN IF Truthy(series_data)
       THEN IF df_final.raised
            THEN Ran(f, "full", fetches, "raised", NoFrame, FALSE, NoFrame)
            ELSE Ran(WriteCsv(df_final.df, cut), "full", fetches,
                     IF cut = NoCut THEN "done" ELSE "crashed",
                     NoFrame, TRUE, df_final.df)
       ELSE Ran(f, "full", fetches, "failed", NoFrame, FALSE, NoFrame)

\* Lines 154-183: the file loaded as df_existing
UpdatePath(f, current_year, series_data, cut) ==
    LET df_existing == ReadCsv(f)
        fetches == <<UpdateWindow(current_year)>>
        df_new == process_data(series_data.series)
    IN IF ~Truthy(series_data)
       THEN Ran(f, "update", fetches, "failed", df_existing, FALSE, NoFrame)
       ELSE IF df_new.raised
       THEN Ran(f, "update", fetches, "raised", df_existing, FALSE, NoFrame)
       ELSE Ran(WriteCsv(Combine(df_existing, df_new.df), cut), "update", fetches,
                IF cut = NoCut THEN "done" ELSE "crashed",
                df_existing, TRUE, df_new.df)

\* os.remove(DATA_FILE_PATH)
OsRemove(f) == Absent

\* the rebuild without os.remove
update_without_remove(f, current_year, series_data, cut) ==
    IF ~f.exists \/ GetSizeIsZero(f) \/ MissingDateColumn(f)
    THEN initial_data_collection(f, current_year, series_data, cut)
    ELSE UpdatePath(f, current_year, series_data, cut)

\* Lines 125-183.  The recursive call of line 150 finds no file.
RECURSIVE update_data_and_save(_, _, _, _)
update_data_and_save(f, current_year, series_data, cut) ==
    IF ~f.exists \/ GetSizeIsZero(f)
    THEN initial_data_collection(f, current_year, series_data, cut)
    ELSE IF MissingDateColumn(f)
    THEN [update_data_and_save(OsRemove(f), current_year, series_data, cut)
            EXCEPT !.deleted = TRUE]
    ELSE UpdatePath(f, current_year, series_data, cut)

\* ------------------------------------------------------------ the inputs
CurrentYears == {2025}

ObsYears == {2024}

RunSeriesIDs == <<"LNS14000000", "PRS85006092">>

RunPeriods == {<<"M", "0", "1">>, <<"M", "0", "2">>, <<"Q", "0", "1">>,
               <<"M", "1", "3">>}

RunValues == {"3.7", "4.1"}

SeqsUpTo(S, n) == UNION {[1..k -> S] : k \in 0..n}

Items(periods, values) == [year : ObsYears, period : periods, value : values]

\* A response carries one entry for each series asked for, in the order
\* asked, and at most MaxObs observations in all
Responses(periods) ==
    {[i \in 1..Len(RunSeriesIDs) |-> [seriesID |-> RunSeriesIDs[i], data |-> d[i]]] :
        d \in {e \in [1..Len(RunSeriesIDs) ->
                        SeqsUpTo(Items(periods, RunValues), MaxObs)] :
                 Len(e[1]) + Len(e[2]) <= MaxObs}}

\* None, an empty list of series, or a response
FetchResults ==
    {None, [ok |-> TRUE, series |-> <<>>]}
        \cup {[ok |-> TRUE, series |-> r] : r \in Responses(RunPeriods)}

\* the fetches of the runs that a crash may stop
CrashPeriods == {<<"M", "0", "1">>, <<"M", "0", "2">>}

CrashFetchResults ==
    {None} \cup {[ok |-> TRUE, series |-> r] : r \in Responses(CrashPeriods)}

\* A file an earlier version of the script left: rows under a header whose
\* first column is the unnamed index, not Date
StaleFile ==
    [exists |-> TRUE, key |-> "Unnamed: 0", cols |-> {"Unemployment_Rate_SA"},
     rows |-> <<[date |-> <<2019, 1, 1>>,
                 cells |-> [c \in {"Unemployment_Rate_SA"} |-> "4.1"]]>>]

\* run: the file the run found (start), the year it ran in, whether its
\* get_bls_data returned a list (returned) and what it did (result);
\* afterCrash: the run before this one was stopped inside to_csv.
NoRun ==
    [start |-> Absent, current_year |-> 0, returned |-> FALSE, afterCrash |-> FALSE,
     result |-> Ran(Absent, "none", <<>>, "none", NoFrame, FALSE, NoFrame)]

Observed(start, current_year, series_data, r) ==
    [start |-> start, current_year |-> current_year, returned |-> series_data.ok,
     afterCrash |-> run.afterCrash, result |-> r]

\* ----------------------------------------------------------- the actions
Init ==
    /\ file \in {Absent, ZeroLength, StaleFile}
    /\ pc = "idle"
    /\ run = NoRun
    /\ series_results = <<>>
    /\ df = [raised |-> FALSE, df |-> NoFrame]

\* python collect_data.py: one run of update_data_and_save, to its end
Update(results) ==
    /\ pc = "idle"
    /\ \E current_year \in CurrentYears, series_data \in results :
         LET r == update_data_and_save(file, current_year, series_data, NoCut)
         IN /\ file' = r.file
            /\ run' = Observed(file, current_year, series_data, r)
    /\ pc' = "done"
    /\ UNCHANGED <<series_results, df>>

\* The same run stopped by a crash inside its to_csv
UpdateCrash(results) ==
    /\ pc = "idle"
    /\ \E current_year \in CurrentYears, series_data \in results :
         LET whole == update_data_and_save(file, current_year, series_data, NoCut)
         IN /\ whole.outcome = "done"
            /\ \E cut \in 0..(Len(whole.file.rows) + 1) :
                 LET r == update_data_and_save(file, current_year, series_data, cut)
                 IN /\ file' = r.file
                    /\ run' = Observed(file, current_year, series_data, r)
    /\ pc' = "done"
    /\ UNCHANGED <<series_results, df>>

\* The process is gone; the next scheduled run starts from the file alone
Exit ==
    /\ pc = "done"
    /\ pc' = "idle"
    /\ run' = [NoRun EXCEPT !.afterCrash = (run.result.outcome = "crashed")]
    /\ UNCHANGED <<file, series_results, df>>

Next == Update(FetchResults) \/ Exit

Spec == Init /\ [][Next]_vars

NextCrash == Update(CrashFetchResults) \/ UpdateCrash(CrashFetchResults) \/ Exit

SpecCrash == Init /\ [][NextCrash]_vars

\* ------------------------------------------- process_data called alone
PDSeriesIDs == {"LNS14000000", "ZZZ0000000"}

PDPeriods ==
    {<<"M", "0", "1">>, <<"M", "1", "2">>, <<"M", "1", "3">>, <<"M", "0", "0">>,
     <<"M", "X", "X">>, <<"M">>, <<"M", "1">>, <<"Q", "0", "1">>, <<"Q", "0", "4">>,
     <<"Q", "0", "5">>, <<"A", "0", "1">>, <<"S", "0", "1">>}

PDValues == {"3.7", "4.1", "-"}

PDInputs ==
    {<<[seriesID |-> id, data |-> d]>> :
        id \in PDSeriesIDs, d \in SeqsUpTo(Items(PDPeriods, PDValues), MaxObs)}

InitPD ==
    /\ file = Absent
    /\ pc = "call"
    /\ run = NoRun
    /\ series_results \in PDInputs
    /\ df = [raised |-> FALSE, df |-> NoFrame]

ProcessData ==
    /\ pc = "call"
    /\ df' = process_data(series_results)
    /\ pc' = "returned"
    /\ UNCHANGED <<file, run, series_results>>

NextPD == ProcessData

SpecPD == InitPD /\ [][NextPD]_vars

\* ------------------------------------------------------------ the claims
R == run.result

Table == ReadCsv(file)

DatesOf(frame) == {frame.rows[i].Date : i \in 1..Len(frame.rows)}

\* the cells of the rows of frame dated d
RowsAt(frame, d) ==
    {frame.rows[i].cells : i \in {k \in 1..Len(frame.rows) : frame.rows[k].Date = d}}

\* the file the run found: missing or of zero bytes; non-empty under a
\* header without Date; non-empty under a header with Date
StartMissingOrEmpty == ~run.start.exists \/ run.start.key = ""

StartCorrupt == run.start.exists /\ run.start.key \notin {"", "Date"}

StartLoadable == run.start.exists /\ run.start.key = "Date"

\* a run that loaded the file, fetched, built df_new and wrote the merge
Merged == pc = "done" /\ R.path = "update" /\ R.outcome = "done"

Overlap == DatesOf(R.df_existing) \cap DatesOf(R.df_new)

\* C1: after a run on the VALID path whose fetch gave a new table, for every
\* date in both the existing and the new table and every column of the new
\* table, the file holds the new table's value for that date and column.
C1_NewValueWins ==
    Merged =>
        \A d \in Overlap : \A c \in R.df_new.cols :
            {cells[c] : cells \in RowsAt(Table, d)} =
                {cells[c] : cells \in RowsAt(R.df_new, d)}

\* C1 witness: a merge in which a date of both tables had, in a column of
\* the new table, an old value other than the new one.
C1_Witness ==
    /\ Merged
    /\ \E d \in Overlap : \E c \in R.df_new.cols \cap R.df_existing.cols :
          \E old \in RowsAt(R.df_existing, d), new \in RowsAt(R.df_new, d) :
              old[c] # Null /\ new[c] # Null /\ old[c] # new[c]

\* C2: in every state reached by any sequence of runs, no two rows of the
\* persisted file have the same date.
C2_DatesUnique ==
    \A i, j \in 1..Len(file.rows) : i # j => file.rows[i].date # file.rows[j].date

\* C2 witness: a merge of two tables that shared a date has been written,
\* and the file has several rows.
C2_Witness == Merged /\ Overlap # {} /\ Len(file.rows) >= 2

\* C3: in every state reached by any sequence of runs, the rows of the
\* persisted file are in ascending order of date.
C3_SortedAscending ==
    \A i, j \in 1..Len(file.rows) :
        i < j => DateValue(file.rows[i].date) <= DateValue(file.rows[j].date)

\* C3 witness: a merge has been written whose new table held a date earlier
\* than one of the existing table and absent from it, so that the
\* concatenation was out of order.
C3_Witness ==
    /\ Merged
    /\ \E d \in DatesOf(R.df_new) \ DatesOf(R.df_existing) :
          \E e \in DatesOf(R.df_existing) : d < e

\* C4 as stated: after a run whose get_bls_data returned None, the file is
\* the file the run found, whatever that was.
C4_FailedFetchKeepsFile == (pc = "done" /\ ~run.returned) => file = run.start

\* C4 amended: after a run whose get_bls_data returned None, the file is
\* the file the run found if that was missing, empty or loadable, and is
\* gone if that had a header without the Date column.
C4_FailedFetchKeepsOrDeletes ==
    (pc = "done" /\ ~run.returned) =>
        file = IF StartCorrupt THEN Absent ELSE run.start

\* C4 witness: a run found a loadable file with rows and its fetch failed.
C4_Witness ==
    /\ pc = "done" /\ ~run.returned /\ StartLoadable /\ Len(run.start.rows) >= 1
    /\ R.outcome = "failed"

\* C5: a run that finds the file missing or empty issues exactly one fetch,
\* for [year - 5, year]; a run that finds a loadable file issues exactly one
\* fetch, for [year - 3, year].
C5_OneFetchPerRun ==
    pc = "done" =>
        /\ StartMissingOrEmpty =>
              R.fetches = << <<run.current_year - 5, run.current_year>> >>
        /\ StartLoadable =>
              R.fetches = << <<run.current_year - 3, run.current_year>> >>

\* C5 witness: a run that found a loadable file with rows has ended.
C5_Witness ==
    pc = "done" /\ StartLoadable /\ Len(run.start.rows) >= 1 /\ Len(R.fetches) = 1

\* C6: a run that finds a non-empty file whose header lacks Date deletes it
\* and takes the full-history path; when the fetch gave a table, the file at
\* the end holds exactly that table's rows and columns, and when it gave
\* none, no file is left.
C6_CorruptRebuilt ==
    (pc = "done" /\ StartCorrupt) =>
        /\ R.deleted
        /\ R.path = "full"
        /\ R.fetches = << <<run.current_year - 5, run.current_year>> >>
        /\ IF R.hasNew
           THEN file.key = "Date" /\ Table = R.df_new
           ELSE file = Absent

\* C6 witness: a file with stale rows under a header without Date has been
\* replaced by a table with rows.
C6_Witness ==
    /\ pc = "done" /\ StartCorrupt /\ Len(run.start.rows) >= 1
    /\ R.hasNew /\ Len(file.rows) >= 1

Recognised ==
    {<<"M", "0", d>> : d \in Digits \ {"0"}} \cup {<<"M", "1", d>> : d \in {"0", "1", "2"}}
        \cup {<<"Q", "0", d>> : d \in {"1", "2", "3", "4"}}

IsRecognised(item) == item.period \in Recognised

OnlyRecognised(results) ==
    [i \in 1..Len(results) |->
        [results[i] EXCEPT !.data = SelectSeq(results[i].data, IsRecognised)]]

\* C7: process_data returns, without raising, the table it returns for the
\* same response with every observation removed whose period code is not
\* one of M01..M12, Q01..Q04.
C7_UnrecognisedDropped ==
    pc = "returned" => df = process_data(OnlyRecognised(series_results))

\* C8: after a merge the dates of the file are exactly the dates of the
\* existing table and of the new table, one row each, and every existing row
\* whose date the new table lacks keeps its values.
C8_UnionOfDates ==
    Merged =>
        /\ DatesOf(Table) = DatesOf(R.df_existing) \cup DatesOf(R.df_new)
        /\ Len(file.rows) = Cardinality(DatesOf(R.df_existing) \cup DatesOf(R.df_new))
        /\ \A d \in DatesOf(R.df_existing) \ DatesOf(R.df_new) :
              \A old \in RowsAt(R.df_existing, d) : \A c \in R.df_existing.cols :
                  {cells[c] : cells \in RowsAt(Table, d)} = {old[c]}

\* C8 witness: two existing rows merged with a revision of one of them and
\* a row of a new date give three rows.
C8_Witness ==
    /\ Merged
    /\ Len(R.df_existing.rows) = 2
    /\ Overlap # {}
    /\ DatesOf(R.df_new) \ DatesOf(R.df_existing) # {}
    /\ DatesOf(R.df_existing) \ DatesOf(R.df_new) # {}
    /\ Len(file.rows) = 3

\* C10: after a merge, the row of a date of both tables is the new table's
\* row: the new value in the new table's columns and null in every other
\* column, whatever the existing row held there.
C10_WholeRowReplaced ==
    Merged =>
        \A d \in Overlap : \A new \in RowsAt(R.df_new, d) :
            RowsAt(Table, d) =
                {[c \in R.df_existing.cols \cup R.df_new.cols |->
                    IF c \in R.df_new.cols THEN new[c] ELSE Null]}

\* C10 witness: the existing row of a shared date held a value in a column
\* where the new row has none, and the file's row is null there.
C10_Witness ==
    /\ Merged
    /\ \E d \in Overlap : \E c \in R.df_existing.cols :
          \E old \in RowsAt(R.df_existing, d), new \in RowsAt(R.df_new, d) :
              /\ old[c] # Null
              /\ c \in R.df_new.cols => new[c] = Null
              /\ \A cells \in RowsAt(Table, d) : cells[c] = Null

\* C9 as stated: the run after a run that crashed inside to_csv does not
\* load what the crash left as a table; it takes the full-history path.
C9_CrashThenRebuild == (pc = "done" /\ run.afterCrash) => R.path = "full"

\* C9 amended: the run after a crash inside to_csv takes the full-history
\* path, with its one fetch of the full window, exactly when the crash left
\* no byte or a header without the Date column; when the header on disk
\* names Date, the run loads the cut file and issues the revisions fetch.
C9_RebuildOnlyIfHeaderCut ==
    (pc = "done" /\ run.afterCrash) =>
        IF run.start.key # "Date"
        THEN R.path = "full" /\ R.fetches = << <<run.current_year - 5, run.current_year>> >>
        ELSE R.path = "update"
                /\ R.fetches = << <<run.current_year - 3, run.current_year>> >>

\* C9 witness: a crash left a header cut inside the word Date, and the next
\* run deleted the file and wrote a table with rows from its fetch.
C9_Witness ==
    /\ pc = "done" /\ run.afterCrash
    /\ run.start.key = "Dat"
    /\ R.deleted /\ R.path = "full" /\ R.outcome = "done"
    /\ Len(file.rows) >= 1

====
